---- MODULE Spec2Model ----
(***************************************************************************)
(* State-machine model of the SSC (Super Secure Chat) client:              *)
(*   - SignalStore / SignalProtocol        (src/lib/signal.ts)             *)
(*   - CryptoService                       (src/unnamed/part_005)          *)
(*   - ChatThreadScreen                    (src/unnamed/part_001)          *)
(*   - Settings "Initialize" button        (src/app/(tabs)/settings.tsx)   *)
(*                                                                         *)
(* The libsignal primitives that the code calls (key generation, signing,  *)
(* processPreKeyBundle, SessionCipher encrypt / decrypt) are modelled      *)
(* symbolically: a key is a record naming its owner, its generation and    *)
(* its kind; a signature names the signing key and the signed key; an      *)
(* envelope names the keys the sender derived the session from, and it     *)
(* decrypts exactly when the receiver's key store holds those keys.        *)
(***************************************************************************)
EXTENDS Integers, Sequences, FiniteSets, TLC

\* ------------------------------------------------------------------ bounds
Users == {1, 2}           \* user ids, as the value of their first 8 hex digits
KeyIds == {1, 2}          \* the pre-key ids Math.random() may draw
RegIds == {7}             \* the registration ids Math.random() may draw
AllDraws == KeyIds \X KeyIds          \* (signed pre-key id, pre-key id) drawn
ChatDraws == {<<1, 1>>, <<2, 2>>}     \* the draws explored with the chat screen
Typists == {1}            \* the users who type messages
SettingsUsers == {1}      \* the users who press Initialize in Settings
MaxGen == 2               \* key generations per user
MaxRows == 1              \* rows of the messages table
MaxBase == 2              \* sessions a user may establish

\* ------------------------------------------------------- program constants
RegistrationIdRange == 16384
DeviceId == 1
BundleSignedPreKeyId == 1
BundlePreKeyId == 1
FallbackPreKeyId == 1

Null == [null |-> TRUE]

\* ------------------------------------------------------------ key material
\* Signal.IdentityKeyPair.generate(): a fresh key pair; the public key is
\* identified with the pair.
NewKey(u, g, kind) == [o |-> u, g |-> g, k |-> kind]

\* privateKey().sign(bytes)
Sign(key, over) == [signer |-> key, over |-> over]

\* signature verification performed by processPreKeyBundle
VerifySignature(idKey, pub, sig) == sig = Sign(idKey, pub)

\* parseInt(id.replace(/-/g,'').substring(0,8), 16) % 16384 + 1
AddressOf(uid) == (uid % RegistrationIdRange) + 1

Addresses == {AddressOf(u) : u \in Users}

\* A typed text is a sequence of characters.
ShortText == <<"h", "i">>
Texts == {ShortText}      \* the texts a user may type

\* A message's ciphertext column holds a string: the typed text itself, or the
\* base64 serialization of a PreKeySignalMessage or SignalMessage.
PlainString(text) == [type |-> "text", body |-> text]

IdleSend == [pc |-> "idle"]
IdleLoad == [pc |-> "idle"]

\* the callers of CryptoService.initialize: the chat screen's mount effect
\* and the Settings screen
Callers == {"chat", "settings"}
IdleCall == [pc |-> "idle"]

\* messages.expire_duration: NULL, and the constraint valid_expire_duration
ExpireNull == -1
MinExpireDuration == 5
MaxExpireDuration == 604800
valid_expire_duration(expire_duration) ==
    \/ expire_duration = ExpireNull
    \/ (expire_duration >= MinExpireDuration /\ expire_duration <= MaxExpireDuration)

\* messageData.expire_duration set whatever the duration is
expireDurationOf_Always(duration) == duration

\* messageData.expire_duration: set only if (defaultExpireDuration > 0)
expireDurationOf(duration) == IF duration > 0 THEN duration ELSE ExpireNull

\* Messages shown in the error banner, as sequences of words; <<>> is null.
NoError == <<>>
FailedToSend == <<"Failed", "to", "send", "message">>
SetupBanner ==
    <<"Recipient", "needs", "to", "set", "up", "Signal", "protocol.", "Ask",
      "them", "to", "open", "the", "app", "and", "go", "to", "Settings", "->",
      "Initialize", "Signal", "Protocol.">>

\* errorMsg.includes(part)
includes(errorMsg, part) ==
    \E i \in 1..(Len(errorMsg) - Len(part) + 1) :
        SubSeq(errorMsg, i, i + Len(part) - 1) = part

\* sendMessage, outer catch: the text shown for a thrown error
sendErrorText(errorMsg) ==
    IF includes(errorMsg, <<"encryption", "keys">>) THEN SetupBanner ELSE errorMsg

NoSession == 0            \* null as user, profile or session
MaxAuthEvents == 2        \* auth state changes not yet delivered
\* AuthProvider once the first getSession has resolved without a stored session
SignedOutAuth ==
    [user |-> NoSession, profile |-> NoSession, session |-> NoSession,
     backend |-> NoSession,   \* the session the supabase client holds
     events |-> <<>>,         \* onAuthStateChange notifications not yet delivered
     loads |-> {},            \* loadProfile calls awaiting their select
     signOut |-> "idle",      \* position of the signOut call
     signedOut |-> FALSE]     \* signOut has returned, no sign-in event since

VARIABLES
    identityKeyPair,    \* SecureStore identity_private / identity_public
    registrationId,     \* SecureStore registration_id (0: never written)
    signedPreKeys,      \* SecureStore signed_prekey_<id>
    preKeys,            \* SecureStore prekey_<id>
    sessions,           \* SecureStore session_<name>_<device>
    identities,         \* SecureStore identity_<name>
    profiles,           \* backend table profiles (public bundle columns)
    messages,           \* backend table messages
    gen,                \* key pairs generated so far, per user
    bases,              \* ephemeral base keys generated so far, per user
    mounted,            \* ChatThreadScreen is open (its peer is the other user)
    initPending,        \* initializeCrypto started by useEffect, not finished
    cryptoServiceRef,   \* ChatThreadScreen cryptoServiceRef.current # null
    sending,            \* ChatThreadScreen sending
    error,              \* ChatThreadScreen error
    send,               \* position of the sendMessage in flight
    load,               \* position of the loadMessages in flight
    events,             \* realtime INSERT payloads awaiting handleNewMessage
    handling,           \* handleNewMessage calls between session read and write
    displayed,          \* ChatThreadScreen messages
    decrypted,          \* envelopes each user's decryptMessage has decrypted (history)
    lastOp,             \* what the last step did (observation only)
    defaultExpireDuration, \* ChatThreadScreen defaultExpireDuration
    chatSettings,       \* chat_settings rows of each user: disappearing_duration
    timers,             \* setTimeout callbacks of sendMessage not yet run
    initCalls,          \* CryptoService.initialize calls in progress, by caller
    auth                \* AuthProvider: user, profile, session and its pending calls

vars == <<identityKeyPair, registrationId, signedPreKeys, preKeys, sessions,
          identities, profiles, messages, gen, bases, mounted, initPending,
          cryptoServiceRef, sending, error, send, load, events, handling,
          displayed, decrypted, lastOp, defaultExpireDuration, chatSettings,
          timers, initCalls, auth>>

keyVars == <<identityKeyPair, registrationId, signedPreKeys, preKeys, gen>>
screenVars == <<mounted, initPending, cryptoServiceRef, sending, error, send,
                load, events, handling, displayed>>

expiryVars == <<defaultExpireDuration, chatSettings, timers>>
extVars == <<expiryVars, initCalls, auth>>

EmptyProfile == [identity_key_public |-> Null, signed_prekey |-> Null,
                 one_time_prekeys |-> <<>>]

Init ==
    /\ identityKeyPair = [u \in Users |-> Null]
    /\ registrationId = [u \in Users |-> 0]
    /\ signedPreKeys = [u \in Users |-> [i \in KeyIds |-> Null]]
    /\ preKeys = [u \in Users |-> [i \in KeyIds |-> Null]]
    /\ sessions = [u \in Users |-> [a \in Addresses |-> Null]]
    /\ identities = [u \in Users |-> [a \in Addresses |-> Null]]
    /\ profiles = [u \in Users |-> EmptyProfile]
    /\ messages = <<>>
    /\ gen = [u \in Users |-> 0]
    /\ bases = [u \in Users |-> 0]
    /\ mounted = [u \in Users |-> FALSE]
    /\ initPending = [u \in Users |-> FALSE]
    /\ cryptoServiceRef = [u \in Users |-> FALSE]
    /\ sending = [u \in Users |-> FALSE]
    /\ error = [u \in Users |-> NoError]
    /\ send = [u \in Users |-> IdleSend]
    /\ load = [u \in Users |-> IdleLoad]
    /\ events = [u \in Users |-> {}]
    /\ handling = [u \in Users |-> {}]
    /\ displayed = [u \in Users |-> <<>>]
    /\ decrypted = [u \in Users |-> {}]
    /\ lastOp = [op |-> "init"]
    /\ defaultExpireDuration = [u \in Users |-> 0]
    /\ chatSettings = [u \in Users |-> <<>>]
    /\ timers = {}
    /\ initCalls = [u \in Users |-> [c \in Callers |-> IdleCall]]
    /\ auth = SignedOutAuth

\* ------------------------------------------------------------ SignalProtocol
\* getUserBundle: the bundle rebuilt from the store, Null when the identity
\* or the records with the hard-coded ids 1 are missing.  rid is the value
\* getLocalRegistrationId falls back to when none is stored.
getUserBundle(u, rid) ==
    IF identityKeyPair[u] = Null THEN Null
    ELSE IF \/ BundleSignedPreKeyId \notin KeyIds
            \/ BundlePreKeyId \notin KeyIds
            \/ signedPreKeys[u][BundleSignedPreKeyId] = Null
            \/ preKeys[u][BundlePreKeyId] = Null THEN Null
    ELSE [identityKey |-> identityKeyPair[u],
          signedPreKey |-> [keyId |-> BundleSignedPreKeyId,
                            publicKey |-> signedPreKeys[u][BundleSignedPreKeyId].publicKey,
                            signature |-> signedPreKeys[u][BundleSignedPreKeyId].signature],
          preKey |-> [keyId |-> BundlePreKeyId,
                      publicKey |-> preKeys[u][BundlePreKeyId]],
          registrationId |-> IF registrationId[u] # 0 THEN registrationId[u] ELSE rid]

\* The bundle generateIdentity returns for generation g with the drawn ids.
generatedBundle(u, g, rid, spkId, pkId) ==
    [identityKey |-> NewKey(u, g, "identity"),
     signedPreKey |-> [keyId |-> spkId,
                       publicKey |-> NewKey(u, g, "signed"),
                       signature |-> Sign(NewKey(u, g, "identity"), NewKey(u, g, "signed"))],
     preKey |-> [keyId |-> pkId, publicKey |-> NewKey(u, g, "prekey")],
     registrationId |-> rid]

\* generateIdentity: the four store writes, for generation g with the drawn ids.
generateIdentity(u, g, rid, spkId, pkId) ==
    /\ identityKeyPair' = [identityKeyPair EXCEPT ![u] = NewKey(u, g, "identity")]
    /\ registrationId' = [registrationId EXCEPT ![u] = rid]
    /\ signedPreKeys' = [signedPreKeys EXCEPT ![u][spkId] =
           [publicKey |-> NewKey(u, g, "signed"),
            signature |-> Sign(NewKey(u, g, "identity"), NewKey(u, g, "signed"))]]
    /\ preKeys' = [preKeys EXCEPT ![u][pkId] = NewKey(u, g, "prekey")]
    /\ gen' = [gen EXCEPT ![u] = g]

\* SignalStore.isTrustedIdentity
isTrustedIdentity(u, addr, key) == TRUE

\* SignalStore.saveIdentity: the identity stored for the address after the call
saveIdentity(ids, u, addr, key) == [ids EXCEPT ![u][addr] = key]

\* ----------------------------------------------- libsignal session records
\* A session record holds the current session state and the archived ones.
\* A state is named by the base key its initiator generated.
Base(u, n) == [o |-> u, n |-> n]
EmptyRecord == [cur |-> Null, states |-> {}]
RecordOf(rec) == IF rec = Null THEN EmptyRecord ELSE rec
HasState(rec, base) == \E s \in RecordOf(rec).states : s.base = base
StateFor(rec, base) == CHOOSE s \in RecordOf(rec).states : s.base = base
PutState(rec, s) ==
    [cur |-> s.base,
     states |-> {t \in RecordOf(rec).states : t.base # s.base} \cup {s}]

Failure(kind) == [ok |-> FALSE, err |-> kind]

\* createSession that stores the session without the signature check
createSession_NoVerify(u, bundle, rec, n) ==
    [ok |-> TRUE, addr |-> bundle.registrationId,
     rec |-> PutState(rec,
               [base |-> Base(u, n), their |-> bundle.identityKey,
                spk |-> [keyId |-> bundle.signedPreKey.keyId,
                         publicKey |-> bundle.signedPreKey.publicKey],
                opk |-> bundle.preKey,
                sendCtr |-> 0, recvd |-> {}, pending |-> TRUE])]

\* createSession: SessionBuilder.processPreKeyBundle on the session record
\* rec read from the store; n numbers the ephemeral base key.
createSession(u, bundle, rec, n) ==
    LET addr == bundle.registrationId IN
    IF ~isTrustedIdentity(u, addr, bundle.identityKey)
    THEN Failure("UntrustedIdentity")
    ELSE IF ~VerifySignature(bundle.identityKey, bundle.signedPreKey.publicKey,
                             bundle.signedPreKey.signature)
    THEN Failure("InvalidSignedPreKeySignature")
    ELSE [ok |-> TRUE, addr |-> addr,
          rec |-> PutState(rec,
                    [base |-> Base(u, n), their |-> bundle.identityKey,
                     spk |-> [keyId |-> bundle.signedPreKey.keyId,
                              publicKey |-> bundle.signedPreKey.publicKey],
                     opk |-> bundle.preKey,
                     sendCtr |-> 0, recvd |-> {}, pending |-> TRUE])]

\* encryptMessage: SessionCipher.encrypt on the session record rec
encryptMessage(u, rec, text) ==
    IF rec = Null \/ RecordOf(rec).cur = Null THEN Failure("NoSession")
    ELSE LET s == StateFor(rec, rec.cur) IN
         [ok |-> TRUE,
          env |-> [type |-> IF s.pending THEN "prekey" ELSE "normal",
                   by |-> u, base |-> s.base, ctr |-> s.sendCtr,
                   ik |-> IF s.pending THEN s.their ELSE Null,
                   spk |-> IF s.pending THEN s.spk ELSE Null,
                   opk |-> IF s.pending THEN s.opk ELSE Null,
                   senderIk |-> IF s.pending THEN identityKeyPair[u] ELSE Null,
                   body |-> text],
          rec |-> PutState(rec, [s EXCEPT !.sendCtr = s.sendCtr + 1])]

\* SessionCipher.decryptSignalMessage
decryptSignalMessage(u, rec, env) ==
    IF rec = Null THEN Failure("NoSession")
    ELSE IF env.by = u \/ ~HasState(rec, env.base) THEN Failure("InvalidMessage")
    ELSE LET s == StateFor(rec, env.base) IN
         IF env.ctr \in s.recvd THEN Failure("DuplicatedMessage")
         ELSE [ok |-> TRUE, text |-> env.body,
               rec |-> PutState(rec, [s EXCEPT !.recvd = s.recvd \cup {env.ctr},
                                               !.pending = FALSE]),
               their |-> s.their]

\* SessionCipher.decryptPreKeySignalMessage: bootstrap from the receiver's
\* stored pre-keys unless a state of that base key exists, then decrypt.
decryptPreKeySignalMessage(u, rec, env) ==
    IF env.by = u THEN Failure("InvalidMessage")
    ELSE IF HasState(rec, env.base)
    THEN decryptSignalMessage(u, rec, env)
    ELSE IF ~isTrustedIdentity(u, AddressOf(env.by), env.senderIk)
    THEN Failure("UntrustedIdentity")
    ELSE IF signedPreKeys[u][env.spk.keyId] = Null THEN Failure("InvalidSignedPreKeyId")
    ELSE IF preKeys[u][env.opk.keyId] = Null THEN Failure("InvalidPreKeyId")
    ELSE IF \/ identityKeyPair[u] # env.ik
            \/ signedPreKeys[u][env.spk.keyId].publicKey # env.spk.publicKey
            \/ preKeys[u][env.opk.keyId] # env.opk.publicKey
    THEN Failure("InvalidMessage")
    ELSE [ok |-> TRUE, text |-> env.body,
          rec |-> PutState(rec,
                    [base |-> env.base, their |-> env.senderIk, spk |-> Null,
                     opk |-> Null, sendCtr |-> 0, recvd |-> {env.ctr},
                     pending |-> FALSE]),
          their |-> env.senderIk]

\* SignalProtocol.decryptMessage: the bytes are tried as a PreKeySignalMessage
\* and, when that throws for any reason, as a SignalMessage.
decryptMessage(u, rec, env) ==
    LET first == IF env.type = "prekey"
                 THEN decryptPreKeySignalMessage(u, rec, env)
                 ELSE Failure("InvalidMessage")
    IN IF first.ok THEN first
       ELSE IF env.type = "normal" THEN decryptSignalMessage(u, rec, env)
       ELSE Failure("InvalidMessage")

\* SignalProtocol.decryptMessage: the deserializers the bytes are given to,
\* in order
pathsTried(u, rec, env) ==
    IF env.type = "prekey" /\ decryptPreKeySignalMessage(u, rec, env).ok
    THEN <<"prekey">>
    ELSE <<"prekey", "normal">>

\* sendMessage: the message_type of every row it inserts; the decrypt path a
\* message_type names
MessageType == "whisper"
PathNamedBy(message_type) == IF message_type = "prekey" THEN "prekey" ELSE "normal"

\* CryptoService.looksEncrypted
Base64Chars == {"A", "B", "C", "D", "a", "b", "c", "d", "e", "h", "i",
                "0", "1", "2", "+", "/", "="}
looksEncrypted(str) ==
    IF str.type = "text"
    THEN /\ ~(Len(str.body) < 10)
         /\ \A i \in 1..Len(str.body) : str.body[i] \in Base64Chars
         /\ Len(str.body) % 4 = 0
    ELSE TRUE

\* ------------------------------------------------------------- CryptoService
\* savePublicBundle: the profiles update; the supabase client reports a
\* failed update in its result, which the code does not look at.
savePublicBundle(u, bundle, updateOk) ==
    profiles' = IF updateOk
                THEN [profiles EXCEPT ![u] =
                        [identity_key_public |-> bundle.identityKey,
                         signed_prekey |-> bundle.signedPreKey,
                         one_time_prekeys |-> <<bundle.preKey>>]]
                ELSE profiles

\* CryptoService.initialize
initialize(u, rid, spkId, pkId, updateOk) ==
    LET existing == getUserBundle(u, rid) IN
    IF existing # Null
    THEN /\ savePublicBundle(u, existing, updateOk)
         /\ UNCHANGED <<identityKeyPair, registrationId, signedPreKeys, preKeys, gen>>
    ELSE /\ gen[u] < MaxGen
         /\ generateIdentity(u, gen[u] + 1, rid, spkId, pkId)
         /\ savePublicBundle(u, generatedBundle(u, gen[u] + 1, rid, spkId, pkId), updateOk)

\* ChatThreadScreen: useEffect -> initializeCrypto
InitializeCrypto(u, draws, outcomes) ==
    /\ initPending[u]
    /\ \E rid \in RegIds, d \in draws, updateOk \in outcomes :
        /\ initialize(u, rid, d[1], d[2], updateOk)
        /\ cryptoServiceRef' = [cryptoServiceRef EXCEPT ![u] = TRUE]
        /\ initPending' = [initPending EXCEPT ![u] = FALSE]
        /\ lastOp' = [op |-> "initializeCrypto", user |-> u]
        /\ UNCHANGED <<sessions, identities, messages, bases, mounted, sending,
                       error, send, load, events, handling, displayed, decrypted>>
    /\ UNCHANGED extVars

\* Settings: initializeEncryption, the user's explicit (re)initialize
InitializeEncryption(u, draws, outcomes) ==
    \E rid \in RegIds, d \in draws, updateOk \in outcomes :
        /\ initialize(u, rid, d[1], d[2], updateOk)
        /\ lastOp' = [op |-> "initializeEncryption", user |-> u]
        /\ UNCHANGED <<sessions, identities, messages, bases, screenVars, decrypted>>
        /\ UNCHANGED extVars

\* ------------------------------------------------------- ChatThreadScreen
\* recipientId of the chat thread the user has open
Peer(u) == CHOOSE v \in Users : v # u

\* rows of the conversation, as loadMessages selects them
Conversation(u) ==
    SelectSeq(messages, LAMBDA m :
        \/ (m.sender_id = u /\ m.recipient_id = Peer(u))
        \/ (m.sender_id = Peer(u) /\ m.recipient_id = u))

Row(id) == CHOOSE m \in {messages[i] : i \in 1..Len(messages)} : m.id = id

SetDelivered(msgs, id) ==
    [i \in 1..Len(msgs) |->
        IF msgs[i].id = id THEN [msgs[i] EXCEPT !.status = "delivered"] ELSE msgs[i]]

InFlightSends == Cardinality({u \in Users : send[u].pc # "idle"})

\* sendMessage calls of the other screens that have not reached their insert
OtherSends(u) == Cardinality({v \in Users \ {u} : send[v].pc # "idle"})

\* sendMessage without the test of sending
canSend_IgnoresSending(u) == mounted[u]

\* the guard of sendMessage: !inputText.trim() || !user || !recipientId ||
\* sending (the input is the text drawn by the action)
canSend(u) == mounted[u] /\ ~sending[u]

\* useEffect of a freshly mounted ChatThreadScreen: initializeCrypto and
\* loadMessages are started, the realtime subscription is made.
OpenChat(u) ==
    /\ ~mounted[u]
    /\ mounted' = [mounted EXCEPT ![u] = TRUE]
    /\ initPending' = [initPending EXCEPT ![u] = TRUE]
    /\ load' = [load EXCEPT ![u] = [pc |-> "query"]]
    /\ lastOp' = [op |-> "step"]
    /\ UNCHANGED <<keyVars, decrypted, sessions, identities, profiles, messages, bases,
                   cryptoServiceRef, sending, error, send, events, handling,
                   displayed>>
    /\ UNCHANGED extVars

\* The user leaves the thread once its handlers have finished; the next
\* OpenChat mounts a new screen instance.
CloseChat(u) ==
    /\ mounted[u] /\ ~initPending[u]
    /\ send[u].pc = "idle" /\ load[u].pc = "idle" /\ handling[u] = {}
    /\ mounted' = [mounted EXCEPT ![u] = FALSE]
    /\ cryptoServiceRef' = [cryptoServiceRef EXCEPT ![u] = FALSE]
    /\ sending' = [sending EXCEPT ![u] = FALSE]
    /\ error' = [error EXCEPT ![u] = NoError]
    /\ events' = [events EXCEPT ![u] = {}]
    /\ displayed' = [displayed EXCEPT ![u] = <<>>]
    /\ lastOp' = [op |-> "step"]
    /\ UNCHANGED <<keyVars, decrypted, sessions, identities, profiles, messages, bases,
                   initPending, send, load, handling>>
    /\ defaultExpireDuration' = [defaultExpireDuration EXCEPT ![u] = 0]
    /\ UNCHANGED <<chatSettings, timers, initCalls, auth>>

\* sendMessage up to the end of createSession inside
\* CryptoService.encryptMessage (or up to the insert when nothing is encrypted)
SendBegin(u, text) ==
    /\ canSend(u)
    /\ Len(messages) + OtherSends(u) < MaxRows
    /\ sending' = [sending EXCEPT ![u] = TRUE]
    /\ error' = [error EXCEPT ![u] = NoError]
    /\ LET prof == profiles[Peer(u)]
           recipientBundle ==
               [identityKey |-> prof.identity_key_public,
                signedPreKey |-> prof.signed_prekey,
                preKey |-> IF Len(prof.one_time_prekeys) > 0
                           THEN prof.one_time_prekeys[1]
                           ELSE [keyId |-> FallbackPreKeyId,
                                 publicKey |-> prof.identity_key_public],
                registrationId |-> AddressOf(Peer(u))]
           made == createSession(u, recipientBundle,
                                 sessions[u][AddressOf(Peer(u))], bases[u] + 1)
       IN
       IF ~cryptoServiceRef[u]
       THEN /\ send' = [send EXCEPT ![u] =
                    [pc |-> "insert", text |-> text, cipher |-> PlainString(text),
                     encrypt |-> "none"]]
            /\ lastOp' = [op |-> "sendBegin", user |-> u, encrypt |-> "none"]
            /\ UNCHANGED <<sessions, identities, bases>>
       ELSE IF prof.identity_key_public = Null
       THEN /\ send' = [send EXCEPT ![u] =
                    [pc |-> "insert", text |-> text, cipher |-> PlainString(text),
                     encrypt |-> "failed",
                     err |-> "Recipient public key not found"]]
            /\ lastOp' = [op |-> "sendBegin", user |-> u, encrypt |-> "failed",
                          err |-> "Recipient public key not found"]
            /\ UNCHANGED <<sessions, identities, bases>>
       ELSE IF ~made.ok
       THEN /\ send' = [send EXCEPT ![u] =
                    [pc |-> "insert", text |-> text, cipher |-> PlainString(text),
                     encrypt |-> "failed", err |-> made.err]]
            /\ lastOp' = [op |-> "sendBegin", user |-> u, encrypt |-> "failed",
                          err |-> made.err]
            /\ UNCHANGED <<sessions, identities, bases>>
       ELSE /\ bases[u] < MaxBase
            /\ sessions' = [sessions EXCEPT ![u][made.addr] = made.rec]
            /\ identities' = saveIdentity(identities, u, made.addr,
                                          recipientBundle.identityKey)
            /\ bases' = [bases EXCEPT ![u] = bases[u] + 1]
            /\ send' = [send EXCEPT ![u] =
                    [pc |-> "created", text |-> text, addr |-> made.addr]]
            /\ lastOp' = [op |-> "sendBegin", user |-> u, encrypt |-> "created"]
    /\ UNCHANGED <<keyVars, decrypted, profiles, messages, mounted, initPending,
                   cryptoServiceRef, load, events, handling, displayed>>
    /\ UNCHANGED extVars

\* SignalProtocol.encryptMessage: SessionCipher.encrypt loads the session
SendEncryptLoad(u) ==
    /\ send[u].pc = "created"
    /\ send' = [send EXCEPT ![u] =
            [pc |-> "encrypting", text |-> send[u].text, addr |-> send[u].addr,
             snap |-> sessions[u][send[u].addr]]]
    /\ lastOp' = [op |-> "step"]
    /\ UNCHANGED <<keyVars, decrypted, sessions, identities, profiles, messages, bases,
                   mounted, initPending, cryptoServiceRef, sending, error, load,
                   events, handling, displayed>>
    /\ UNCHANGED extVars

\* ... and stores the advanced session; the envelope is the ciphertext
SendEncryptStore(u) ==
    /\ send[u].pc = "encrypting"
    /\ LET enc == encryptMessage(u, send[u].snap, send[u].text) IN
       IF enc.ok
       THEN /\ sessions' = [sessions EXCEPT ![u][send[u].addr] = enc.rec]
            /\ send' = [send EXCEPT ![u] =
                    [pc |-> "insert", text |-> send[u].text, cipher |-> enc.env,
                     encrypt |-> "ok"]]
            /\ lastOp' = [op |-> "sendEncryptStore", user |-> u, encrypt |-> "ok"]
       ELSE /\ send' = [send EXCEPT ![u] =
                    [pc |-> "insert", text |-> send[u].text,
                     cipher |-> PlainString(send[u].text), encrypt |-> "failed"]]
            /\ lastOp' = [op |-> "sendEncryptStore", user |-> u, encrypt |-> "failed",
                          err |-> enc.err]
            /\ UNCHANGED sessions
    /\ UNCHANGED <<keyVars, decrypted, identities, profiles, messages, bases, mounted,
                   initPending, cryptoServiceRef, sending, error, load, events,
                   handling, displayed>>
    /\ UNCHANGED extVars

\* sendMessage: the insert into messages, setMessages, and the finally block
SendInsert(u, insertOk) ==
    /\ send[u].pc = "insert"
    /\ LET id == Len(messages) + 1
           expire == expireDurationOf(defaultExpireDuration[u])
           row == [id |-> id, sender_id |-> u, recipient_id |-> Peer(u),
                   ciphertext |-> send[u].cipher, message_type |-> MessageType,
                   status |-> "sent", expire_duration |-> expire]
           inserted == insertOk /\ valid_expire_duration(expire)
       IN
       /\ IF inserted
          THEN /\ messages' = Append(messages, row)
               /\ displayed' = [displayed EXCEPT ![u] =
                       Append(@, [id |-> id, decryptedText |-> PlainString(send[u].text),
                                  isOutgoing |-> TRUE])]
               /\ events' = [events EXCEPT ![Peer(u)] =
                       IF mounted[Peer(u)] THEN @ \cup {id} ELSE @]
               /\ timers' = IF defaultExpireDuration[u] > 0
                            THEN timers \cup {[user |-> u, id |-> id]}
                            ELSE timers
               /\ UNCHANGED error
          ELSE /\ error' = [error EXCEPT ![u] = sendErrorText(FailedToSend)]
               /\ UNCHANGED <<messages, displayed, events, timers>>
       /\ lastOp' = [op |-> "sendInsert", user |-> u, ok |-> inserted,
                     encrypt |-> send[u].encrypt,
                     err |-> IF send[u].encrypt = "failed" THEN send[u].err ELSE "none",
                     plaintext |-> PlainString(send[u].text),
                     ciphertext |-> send[u].cipher,
                     expire_duration |-> expire]
    /\ sending' = [sending EXCEPT ![u] = FALSE]
    /\ send' = [send EXCEPT ![u] = IdleSend]
    /\ UNCHANGED <<keyVars, decrypted, sessions, identities, profiles, bases, mounted,
                   initPending, cryptoServiceRef, load, handling>>
    /\ UNCHANGED <<defaultExpireDuration, chatSettings, initCalls, auth>>

\* CryptoService.decryptMessage whose catch block rethrows
cryptoDecryptMessage_Rethrows(u, snap, c) ==
    LET r == decryptMessage(u, snap, c) IN
    IF r.ok THEN [failed |-> FALSE, value |-> PlainString(r.text)]
    ELSE [failed |-> TRUE, value |-> c]

\* CryptoService.decryptMessage, its value for an envelope whose session
\* record was read as snap: the plaintext, or the input string when the
\* decryption throws.
cryptoDecryptMessage(u, snap, c) ==
    LET r == decryptMessage(u, snap, c) IN
    IF r.ok THEN [failed |-> FALSE, value |-> PlainString(r.text)]
    ELSE [failed |-> FALSE, value |-> c]

\* handleNewMessage / loadMessages: the text shown for a decryption
DisplayText(res, c) == IF res.failed THEN c ELSE res.value

\* The decryption starts a session operation only for a string that looks
\* encrypted and deserializes as a message.
StartsDecrypt(c) == looksEncrypted(c) /\ c.type # "text"

\* The write-back of a decryption whose session record was read as snap.
DecryptStore(u, snap, c) ==
    LET r == decryptMessage(u, snap, c) IN
    /\ sessions' = IF r.ok THEN [sessions EXCEPT ![u][AddressOf(Peer(u))] = r.rec]
                   ELSE sessions
    /\ identities' = IF r.ok THEN saveIdentity(identities, u, AddressOf(Peer(u)), r.their)
                     ELSE identities
    /\ decrypted' = IF r.ok THEN [decrypted EXCEPT ![u] = @ \cup {c}] ELSE decrypted

DecryptObservation(name, u, snap, c) ==
    [op |-> name, user |-> u, ciphertext |-> c,
     ok |-> decryptMessage(u, snap, c).ok,
     bootstrap |-> c.type = "prekey" /\ ~HasState(snap, c.base),
     replay |-> c \in decrypted[u],
     paths |-> pathsTried(u, snap, c),
     err |-> IF decryptMessage(u, snap, c).ok THEN "none"
             ELSE decryptMessage(u, snap, c).err,
     result |-> cryptoDecryptMessage(u, snap, c)]

\* loadMessages: the select of the conversation
LoadQuery(u) ==
    /\ load[u].pc = "query"
    /\ load' = [load EXCEPT ![u] =
            [pc |-> "loop", data |-> Conversation(u), i |-> 1, acc |-> <<>>,
             crypto |-> cryptoServiceRef[u]]]
    /\ lastOp' = [op |-> "step"]
    /\ UNCHANGED <<keyVars, decrypted, sessions, identities, profiles, messages,
                   bases, mounted, initPending, cryptoServiceRef, sending, error,
                   send, events, handling, displayed>>
    /\ UNCHANGED extVars

\* loadMessages: one turn of the loop up to the session read of the
\* decryption, or the final setMessages
LoadStep(u) ==
    /\ load[u].pc = "loop"
    /\ LET l == load[u] IN
       IF l.i > Len(l.data)
       THEN /\ displayed' = [displayed EXCEPT ![u] = l.acc]
            /\ load' = [load EXCEPT ![u] = IdleLoad]
            /\ lastOp' = [op |-> "step"]
       ELSE LET msg == l.data[l.i] IN
            IF l.crypto /\ StartsDecrypt(msg.ciphertext)
            THEN /\ load' = [load EXCEPT ![u] =
                        [l EXCEPT !.pc = "decrypting"] @@
                        [snap |-> sessions[u][AddressOf(Peer(u))]]]
                 /\ lastOp' = [op |-> "step"]
                 /\ UNCHANGED displayed
            ELSE /\ load' = [load EXCEPT ![u] =
                        [l EXCEPT !.i = l.i + 1,
                                  !.acc = Append(l.acc,
                                      [id |-> msg.id, decryptedText |-> msg.ciphertext,
                                       isOutgoing |-> msg.sender_id = u])]]
                 /\ lastOp' = [op |-> "step"]
                 /\ UNCHANGED displayed
    /\ UNCHANGED <<keyVars, decrypted, sessions, identities, profiles, messages,
                   bases, mounted, initPending, cryptoServiceRef, sending, error,
                   send, events, handling>>
    /\ UNCHANGED extVars

\* loadMessages: the decryption of one row finishes
LoadDecryptStore(u) ==
    /\ load[u].pc = "decrypting"
    /\ LET l == load[u]
           msg == l.data[l.i]
       IN /\ DecryptStore(u, l.snap, msg.ciphertext)
          /\ load' = [load EXCEPT ![u] =
                 [pc |-> "loop", data |-> l.data, i |-> l.i + 1,
                  acc |-> Append(l.acc,
                      [id |-> msg.id,
                       decryptedText |-> DisplayText(
                           cryptoDecryptMessage(u, l.snap, msg.ciphertext),
                           msg.ciphertext),
                       isOutgoing |-> msg.sender_id = u]),
                  crypto |-> l.crypto]]
          /\ lastOp' = DecryptObservation("loadDecryptStore", u, l.snap, msg.ciphertext)
    /\ UNCHANGED <<keyVars, profiles, messages, bases, mounted, initPending,
                   cryptoServiceRef, sending, error, send, events, handling,
                   displayed>>
    /\ UNCHANGED extVars

\* handleNewMessage for a realtime INSERT payload, up to the session read of
\* the decryption; without a decryption the whole handler
HandleNewMessage(u, id) ==
    /\ id \in events[u]
    /\ events' = [events EXCEPT ![u] = @ \ {id}]
    /\ LET msg == Row(id) IN
       IF cryptoServiceRef[u] /\ StartsDecrypt(msg.ciphertext)
       THEN /\ handling' = [handling EXCEPT ![u] =
                   @ \cup {[id |-> id, snap |-> sessions[u][AddressOf(Peer(u))]]}]
            /\ lastOp' = [op |-> "step"]
            /\ UNCHANGED <<displayed, messages>>
       ELSE /\ displayed' = [displayed EXCEPT ![u] =
                   Append(@, [id |-> id, decryptedText |-> msg.ciphertext,
                              isOutgoing |-> FALSE])]
            /\ messages' = SetDelivered(messages, id)
            /\ lastOp' = [op |-> "step"]
            /\ UNCHANGED handling
    /\ UNCHANGED <<keyVars, decrypted, sessions, identities, profiles, bases,
                   mounted, initPending, cryptoServiceRef, sending, error, send,
                   load>>
    /\ UNCHANGED extVars

\* handleNewMessage: the decryption finishes, the message is shown and
\* marked delivered
HandleDecryptStore(u, h) ==
    /\ h \in handling[u]
    /\ handling' = [handling EXCEPT ![u] = @ \ {h}]
    /\ LET msg == Row(h.id) IN
       /\ DecryptStore(u, h.snap, msg.ciphertext)
       /\ displayed' = [displayed EXCEPT ![u] =
              Append(@, [id |-> h.id,
                         decryptedText |-> DisplayText(
                             cryptoDecryptMessage(u, h.snap, msg.ciphertext),
                             msg.ciphertext),
                         isOutgoing |-> FALSE])]
       /\ lastOp' = DecryptObservation("handleDecryptStore", u, h.snap, msg.ciphertext)
    /\ messages' = SetDelivered(messages, h.id)
    /\ UNCHANGED <<keyVars, profiles, bases, mounted, initPending,
                   cryptoServiceRef, sending, error, send, load, events>>
    /\ UNCHANGED extVars

Next ==
    \/ \E u \in Users : InitializeCrypto(u, ChatDraws, {TRUE})
    \/ \E u \in SettingsUsers : InitializeEncryption(u, ChatDraws, {TRUE})
    \/ \E u \in Users : OpenChat(u)
    \/ \E u \in Users : CloseChat(u)
    \/ \E u \in Typists, text \in Texts : SendBegin(u, text)
    \/ \E u \in Users : SendEncryptLoad(u)
    \/ \E u \in Users : SendEncryptStore(u)
    \/ \E u \in Users, insertOk \in BOOLEAN : SendInsert(u, insertOk)
    \/ \E u \in Users : LoadQuery(u)
    \/ \E u \in Users : LoadStep(u)
    \/ \E u \in Users : LoadDecryptStore(u)
    \/ \E u \in Users, id \in 1..MaxRows : HandleNewMessage(u, id)
    \/ \E u \in Users : \E h \in handling[u] : HandleDecryptStore(u, h)

Spec == Init /\ [][Next]_vars

\* Session establishment alone: the typists open the thread and send, their
\* peers (re)initialize from Settings with every draw of the pre-key ids.
NextEstablish ==
    \/ \E u \in Typists : InitializeCrypto(u, ChatDraws, {TRUE})
    \/ \E u \in Users \ Typists : InitializeEncryption(u, AllDraws, {TRUE})
    \/ \E u \in Typists : OpenChat(u)
    \/ \E u \in Typists, text \in Texts : SendBegin(u, text)
    \/ \E u \in Typists : SendEncryptLoad(u)
    \/ \E u \in Typists : SendEncryptStore(u)
    \/ \E u \in Typists, insertOk \in BOOLEAN : SendInsert(u, insertOk)

SpecEstablish == Init /\ [][NextEstablish]_vars

\* ------------------------------------------- SignalProtocol, called directly
storeVars == <<identityKeyPair, registrationId, signedPreKeys, preKeys,
               sessions, identities>>
nonKeyVars == <<sessions, identities, profiles, messages, bases, screenVars,
                decrypted>>

\* generateIdentity whose k-th store write throws: the writes before it are
\* kept (1: saveIdentityKeyPair, 2: saveRegistrationId, 3: saveSignedPreKey,
\* 4: savePreKey), the error is rethrown.
StoreWrites == 4
generateIdentityFailing(u, g, rid, spkId, pkId, k) ==
    /\ identityKeyPair' = IF k > 1
                          THEN [identityKeyPair EXCEPT ![u] = NewKey(u, g, "identity")]
                          ELSE identityKeyPair
    /\ registrationId' = IF k > 2 THEN [registrationId EXCEPT ![u] = rid]
                         ELSE registrationId
    /\ signedPreKeys' = IF k > 3
                        THEN [signedPreKeys EXCEPT ![u][spkId] =
                               [publicKey |-> NewKey(u, g, "signed"),
                                signature |-> Sign(NewKey(u, g, "identity"),
                                                   NewKey(u, g, "signed"))]]
                        ELSE signedPreKeys
    /\ preKeys' = preKeys
    /\ gen' = [gen EXCEPT ![u] = g]

\* SignalProtocol.generateIdentity returns its bundle
GenerateIdentity(u) ==
    /\ gen[u] < MaxGen
    /\ \E rid \in RegIds, d \in AllDraws :
        /\ generateIdentity(u, gen[u] + 1, rid, d[1], d[2])
        /\ lastOp' = [op |-> "generateIdentity", user |-> u, ok |-> TRUE,
                      bundle |-> generatedBundle(u, gen[u] + 1, rid, d[1], d[2])]
    /\ UNCHANGED nonKeyVars
    /\ UNCHANGED extVars

\* SignalProtocol.generateIdentity throws on a failed store write
GenerateIdentityFails(u) ==
    /\ gen[u] < MaxGen
    /\ \E rid \in RegIds, d \in AllDraws, k \in 1..StoreWrites :
        /\ generateIdentityFailing(u, gen[u] + 1, rid, d[1], d[2], k)
        /\ lastOp' = [op |-> "generateIdentity", user |-> u, ok |-> FALSE,
                      failedWrite |-> k]
    /\ UNCHANGED nonKeyVars
    /\ UNCHANGED extVars

\* getUserBundle with a getLocalRegistrationId that stores the number it drew
getUserBundleWrites_SavesRegistrationId(u, rid) ==
    /\ registrationId' = [registrationId EXCEPT ![u] = IF @ = 0 THEN rid ELSE @]
    /\ UNCHANGED <<identityKeyPair, signedPreKeys, preKeys, gen>>

\* The key-store writes of getUserBundle: it calls the get methods only.
getUserBundleWrites(u, rid) == UNCHANGED keyVars

\* SignalProtocol.getUserBundle
GetUserBundle(u) ==
    /\ \E rid \in RegIds :
        /\ lastOp' = [op |-> "getUserBundle", user |-> u,
                      result |-> getUserBundle(u, rid)]
        /\ getUserBundleWrites(u, rid)
    /\ UNCHANGED nonKeyVars
    /\ UNCHANGED extVars

\* SignalStore reads: what each get/load returns for the entry named key
Absent == [present |-> FALSE]
Present(value) == [present |-> TRUE, value |-> value]
OrAbsent(entry) == IF entry = Null THEN Absent ELSE Present(entry)

Categories == {"identityKeyPair", "registrationId", "signedPreKey", "preKey",
               "session", "identity"}
EntryKeys(category) ==
    IF category \in {"signedPreKey", "preKey"} THEN KeyIds
    ELSE IF category \in {"session", "identity"} THEN Addresses
    ELSE {0}

\* rid is the number Math.random gives getLocalRegistrationId
StoreRead(u, category, key, rid) ==
    CASE category = "identityKeyPair" -> OrAbsent(identityKeyPair[u])
      [] category = "registrationId" ->
            IF registrationId[u] # 0 THEN Present(registrationId[u]) ELSE Present(rid)
      [] category = "signedPreKey" -> OrAbsent(signedPreKeys[u][key])
      [] category = "preKey" -> OrAbsent(preKeys[u][key])
      [] category = "session" -> OrAbsent(sessions[u][key])
      [] category = "identity" -> OrAbsent(identities[u][key])

\* whether the entry has been written
Written(u, category, key) ==
    CASE category = "identityKeyPair" -> identityKeyPair[u] # Null
      [] category = "registrationId" -> registrationId[u] # 0
      [] category = "signedPreKey" -> signedPreKeys[u][key] # Null
      [] category = "preKey" -> preKeys[u][key] # Null
      [] category = "session" -> sessions[u][key] # Null
      [] category = "identity" -> identities[u][key] # Null

ReadStore(u, category) ==
    /\ \E key \in EntryKeys(category), rid \in RegIds :
        lastOp' = [op |-> "read", user |-> u, category |-> category,
                   written |-> Written(u, category, key),
                   result |-> StoreRead(u, category, key, rid)]
    /\ UNCHANGED <<keyVars, nonKeyVars>>
    /\ UNCHANGED extVars

NextKeys ==
    \/ \E u \in Users : GenerateIdentity(u)
    \/ \E u \in Users : GenerateIdentityFails(u)
    \/ \E u \in Users : GetUserBundle(u)
    \/ \E u \in Users, category \in Categories : ReadStore(u, category)

SpecKeys == Init /\ [][NextKeys]_vars

\* ------------------------------------------------------------ safety number
\* publicKey().serialize(): the bytes of a key
KindByte(kind) == IF kind = "identity" THEN 1 ELSE IF kind = "signed" THEN 2 ELSE 3
serialize(key) == <<key.o, key.g, KindByte(key.k)>>

HexDigits == <<"0", "1", "2", "3", "4", "5", "6", "7",
               "8", "9", "a", "b", "c", "d", "e", "f">>
DigestHexLen == 64
SafetyNumberLen == 60
GroupLen == 5

\* createHash('sha256').update(bytes).digest('hex'), collision-free on the
\* keys of the model: the digest spells out the hashed bytes in order.
sha256hex(bytes) ==
    [i \in 1..DigestHexLen |-> HexDigits[bytes[((i - 1) % Len(bytes)) + 1] + 1]]

\* str.match(/.{1,5}/g)?.join(' ') || str
RECURSIVE GroupsOfFive(_)
GroupsOfFive(str) ==
    IF Len(str) <= GroupLen THEN str
    ELSE SubSeq(str, 1, GroupLen) \o <<" ">>
         \o GroupsOfFive(SubSeq(str, GroupLen + 1, Len(str)))

SafetyNumberError ==
    PlainString(<<"E", "r", "r", "o", "r", " ", "g", "e", "n", "e", "r", "a",
                  "t", "i", "n", "g", " ", "s", "a", "f", "e", "t", "y", " ",
                  "n", "u", "m", "b", "e", "r">>)

\* SignalProtocol.getSafetyNumber
getSafetyNumber(u, otherUserBundle) ==
    IF identityKeyPair[u] = Null THEN SafetyNumberError
    ELSE LET ourKey == serialize(identityKeyPair[u])
             theirKey == serialize(otherUserBundle.identityKey)
             combined == ourKey \o theirKey
             hash == sha256hex(combined)
         IN PlainString(GroupsOfFive(SubSeq(hash, 1, SafetyNumberLen)))

\* CryptoService.getSafetyNumber
cryptoGetSafetyNumber(u, otherUserId) ==
    IF profiles[otherUserId].identity_key_public = Null THEN SafetyNumberError
    ELSE getSafetyNumber(u, [identityKey |-> profiles[otherUserId].identity_key_public])

GetSafetyNumber(u) ==
    /\ lastOp' = [op |-> "getSafetyNumber", user |-> u,
                  result |-> cryptoGetSafetyNumber(u, Peer(u))]
    /\ UNCHANGED <<keyVars, nonKeyVars>>
    /\ UNCHANGED extVars

NextSafety ==
    \/ \E u \in Users : InitializeEncryption(u, AllDraws, {TRUE})
    \/ \E u \in Users : GetSafetyNumber(u)

SpecSafety == Init /\ [][NextSafety]_vars

\* ------------------------------------------- exhausted one-time pre-keys
\* The profile row of u with no one-time pre-key left: one_time_prekeys back
\* at its column default '[]', through an update the row's policy lets its
\* owner make. CryptoService.encryptMessage provides for this row.
OneTimePreKeysExhausted(u) ==
    /\ profiles[u].identity_key_public # Null
    /\ Len(profiles[u].one_time_prekeys) > 0
    /\ profiles' = [profiles EXCEPT ![u].one_time_prekeys = <<>>]
    /\ lastOp' = [op |-> "step"]
    /\ UNCHANGED <<keyVars, sessions, identities, messages, bases, screenVars,
                   decrypted>>
    /\ UNCHANGED extVars

NextExhausted ==
    \/ NextEstablish
    \/ \E u \in Users \ Typists : OneTimePreKeysExhausted(u)

SpecExhausted == Init /\ [][NextExhausted]_vars

\* ------------------------------------------------ messages out of order
\* CryptoService.encryptMessage and decryptMessage as whole calls on a
\* conversation of MaxWire messages; lastOp.log lists the decryptions made so
\* far, in the order they were made.
MaxWire == 3
WireTexts == [i \in 1..MaxWire |-> <<"m", HexDigits[i + 1]>>]
WireLog == IF "log" \in DOMAIN lastOp THEN lastOp.log ELSE <<>>
WireVars == <<mounted, initPending, sending, error, send, load, events,
              handling, displayed>>

\* the bundle CryptoService.encryptMessage builds from the profile of v
recipientBundleOf(v) ==
    [identityKey |-> profiles[v].identity_key_public,
     signedPreKey |-> profiles[v].signed_prekey,
     preKey |-> IF Len(profiles[v].one_time_prekeys) > 0
                THEN profiles[v].one_time_prekeys[1]
                ELSE [keyId |-> FallbackPreKeyId,
                      publicKey |-> profiles[v].identity_key_public],
     registrationId |-> AddressOf(v)]

\* The user enters the chat thread: the mount effect runs initializeCrypto.
EnterChat(u) ==
    /\ \E rid \in RegIds, d \in ChatDraws :
        initialize(u, rid, d[1], d[2], TRUE)
    /\ cryptoServiceRef' = [cryptoServiceRef EXCEPT ![u] = TRUE]
    /\ lastOp' = [op |-> "enterChat", user |-> u, log |-> WireLog]
    /\ UNCHANGED <<sessions, identities, messages, bases, WireVars, decrypted>>
    /\ UNCHANGED extVars

\* CryptoService.encryptMessage(recipientId, message) and the insert of its
\* result; an encryption that throws leaves no message.
WireEncrypt(u) ==
    /\ cryptoServiceRef[u]
    /\ Len(messages) < MaxWire
    /\ LET id == Len(messages) + 1
           bundle == recipientBundleOf(Peer(u))
           made == createSession(u, bundle, sessions[u][AddressOf(Peer(u))],
                                 bases[u] + 1)
           enc == encryptMessage(u, made.rec, WireTexts[id])
       IN
       IF bundle.identityKey = Null \/ ~made.ok
       THEN UNCHANGED <<sessions, identities, bases, messages>>
       ELSE /\ sessions' = [sessions EXCEPT ![u][made.addr] = enc.rec]
            /\ identities' = saveIdentity(identities, u, made.addr, bundle.identityKey)
            /\ bases' = [bases EXCEPT ![u] = bases[u] + 1]
            /\ messages' = Append(messages,
                    [id |-> id, sender_id |-> u, recipient_id |-> Peer(u),
                     ciphertext |-> enc.env, message_type |-> MessageType,
                     status |-> "sent"])
    /\ lastOp' = [op |-> "wireEncrypt", user |-> u, log |-> WireLog]
    /\ UNCHANGED <<keyVars, profiles, cryptoServiceRef, WireVars, decrypted>>
    /\ UNCHANGED extVars

\* CryptoService.decryptMessage(senderId, ciphertext) on a message not yet
\* decrypted by its recipient
WireDecrypt(u, id) ==
    /\ cryptoServiceRef[u]
    /\ id \in 1..Len(messages)
    /\ messages[id].recipient_id = u
    /\ \A i \in 1..Len(WireLog) : WireLog[i].id # id
    /\ LET c == messages[id].ciphertext
           snap == sessions[u][AddressOf(Peer(u))]
       IN /\ DecryptStore(u, snap, c)
          /\ lastOp' = [op |-> "wireDecrypt", user |-> u,
                        log |-> Append(WireLog,
                                  [id |-> id,
                                   ok |-> decryptMessage(u, snap, c).ok,
                                   result |-> cryptoDecryptMessage(u, snap, c).value])]
    /\ UNCHANGED <<keyVars, profiles, messages, bases, cryptoServiceRef, WireVars>>
    /\ UNCHANGED extVars

NextWire ==
    \/ \E u \in Users : EnterChat(u)
    \/ \E u \in Typists : WireEncrypt(u)
    \/ \E u \in Users \ Typists, id \in 1..MaxWire : WireDecrypt(u, id)

SpecWire == Init /\ [][NextWire]_vars

\* ---------------------------------------------------- disappearing messages
\* toggleDisappearingTimer: the durations offered, by button index
durations == <<0, 0, 30, 60, 180, 300, 3600, 86400>>
CancelButtonIndex == 0

\* The row-level policies of the messages table; a statement of a kind
\* without a policy touches no row.
MessagesPolicies == {"SELECT", "INSERT", "UPDATE"}

chatVars == <<keyVars, sessions, identities, profiles, bases, decrypted, initCalls,
              auth>>

\* toggleDisappearingTimer -> handleSelection -> saveChatSettings
ToggleDisappearingTimer(u, buttonIndex) ==
    /\ mounted[u] /\ send[u].pc = "idle"
    /\ IF buttonIndex > CancelButtonIndex
       THEN /\ defaultExpireDuration' =
                    [defaultExpireDuration EXCEPT ![u] = durations[buttonIndex + 1]]
            /\ chatSettings' = [chatSettings EXCEPT ![u] = <<durations[buttonIndex + 1]>>]
       ELSE UNCHANGED <<defaultExpireDuration, chatSettings>>
    /\ lastOp' = [op |-> "toggleDisappearingTimer", user |-> u]
    /\ UNCHANGED <<chatVars, messages, screenVars, timers>>

\* loadChatSettings, started by the mount effect
LoadChatSettings(u) ==
    /\ mounted[u] /\ send[u].pc = "idle"
    /\ defaultExpireDuration' =
            IF chatSettings[u] # <<>>
            THEN [defaultExpireDuration EXCEPT ![u] = chatSettings[u][1]]
            ELSE defaultExpireDuration
    /\ lastOp' = [op |-> "loadChatSettings", user |-> u]
    /\ UNCHANGED <<chatVars, messages, screenVars, chatSettings, timers>>

\* uploadAndSendAttachment: the insert of the attachment's row; no timer is set
AttachmentName == PlainString(<<"f">>)
UploadAndSendAttachment(u, insertOk) ==
    /\ mounted[u]
    /\ Len(messages) + InFlightSends < MaxRows
    /\ LET id == Len(messages) + 1
           expire == expireDurationOf(defaultExpireDuration[u])
           row == [id |-> id, sender_id |-> u, recipient_id |-> Peer(u),
                   ciphertext |-> AttachmentName, message_type |-> MessageType,
                   status |-> "sent", expire_duration |-> expire]
           inserted == insertOk /\ valid_expire_duration(expire)
       IN
       /\ IF inserted
          THEN /\ messages' = Append(messages, row)
               /\ displayed' = [displayed EXCEPT ![u] =
                       Append(@, [id |-> id, decryptedText |-> AttachmentName,
                                  isOutgoing |-> TRUE])]
               /\ events' = [events EXCEPT ![Peer(u)] =
                       IF mounted[Peer(u)] THEN @ \cup {id} ELSE @]
          ELSE UNCHANGED <<messages, displayed, events>>
       /\ lastOp' = [op |-> "uploadAndSendAttachment", user |-> u,
                     ok |-> inserted, expire_duration |-> expire]
    /\ UNCHANGED <<chatVars, mounted, initPending, cryptoServiceRef, sending, error,
                   send, load, handling, expiryVars>>

\* The setTimeout callback of sendMessage: deleteExpiredMessage(id)
TimerFires(t) ==
    /\ t \in timers
    /\ timers' = timers \ {t}
    /\ messages' = IF "DELETE" \in MessagesPolicies
                   THEN SelectSeq(messages, LAMBDA m : m.id # t.id)
                   ELSE messages
    /\ displayed' = [displayed EXCEPT ![t.user] =
                        SelectSeq(@, LAMBDA m : m.id # t.id)]
    /\ lastOp' = [op |-> "deleteExpiredMessage", user |-> t.user, id |-> t.id]
    /\ UNCHANGED <<chatVars, mounted, initPending, cryptoServiceRef, sending, error,
                   send, load, events, handling, defaultExpireDuration, chatSettings>>

\* delete_expired_messages() is defined by the migration and called by
\* nothing: no step of the program runs it.
NextExpire ==
    \/ \E u \in Typists : OpenChat(u)
    \/ \E u \in Typists, buttonIndex \in 0..(Len(durations) - 1) :
            ToggleDisappearingTimer(u, buttonIndex)
    \/ \E u \in Typists : LoadChatSettings(u)
    \/ \E u \in Typists, text \in Texts : SendBegin(u, text)
    \/ \E u \in Typists, insertOk \in BOOLEAN : SendInsert(u, insertOk)
    \/ \E u \in Typists, insertOk \in BOOLEAN : UploadAndSendAttachment(u, insertOk)
    \/ \E t \in timers : TimerFires(t)

SpecExpire == Init /\ [][NextExpire]_vars

\* every started insert completes and every timer set runs
SpecExpireFair ==
    /\ SpecExpire
    /\ \A u \in Typists : WF_vars(\E insertOk \in BOOLEAN : SendInsert(u, insertOk))
    /\ WF_vars(\E t \in timers : TimerFires(t))

\* ------------------------------------------------------- peer addresses
\* A user id is a string of hex digits and dashes.
\* id.replace(/-/g, '').substring(0, 8)
AddressDigits == 8
stripDashes(id) == SelectSeq(id, LAMBDA c : c # "-")
prefix(id) ==
    LET hex == stripDashes(id) IN
    SubSeq(hex, 1, IF Len(hex) < AddressDigits THEN Len(hex) ELSE AddressDigits)

\* parseInt(hex, 16)
HexValue(c) == (CHOOSE i \in 1..Len(HexDigits) : HexDigits[i] = c) - 1
RECURSIVE parseIntHex(_)
parseIntHex(hex) ==
    IF hex = <<>> THEN 0
    ELSE parseIntHex(SubSeq(hex, 1, Len(hex) - 1)) * Len(HexDigits)
         + HexValue(hex[Len(hex)])

\* parseInt(id.replace(/-/g, '').substring(0, 8), 16) % 16384 + 1
addressOfUserId(id) == (parseIntHex(prefix(id)) % RegistrationIdRange) + 1

\* The peers a user may write to: ids differing in the fifth digit, in the
\* eighth digit, or only after the first dash.
PeerId(fifth, eighth, tail) ==
    <<"0", "0", "0", "0", fifth, "0", "0", eighth, "-", tail>>
PeerIds == {PeerId(fifth, eighth, tail) :
                fifth \in {"0", "4"}, eighth \in {"1", "2"}, tail \in {"a", "b"}}
MaxPeerSessions == 3

\* the bundle encryptMessage builds from the profile the peer has published
peerBundle(id) ==
    [generatedBundle(id, 1, addressOfUserId(id), BundleSignedPreKeyId, BundlePreKeyId)
        EXCEPT !.registrationId = addressOfUserId(id)]

\* CryptoService.encryptMessage(recipientId, ...) up to the end of
\* createSession, for any recipient id
EstablishWith(u, id) ==
    /\ bases[u] < MaxPeerSessions
    /\ LET addr == addressOfUserId(id)
           made == createSession(u, peerBundle(id), sessions[u][addr], bases[u] + 1)
       IN /\ made.ok
          /\ sessions' = [sessions EXCEPT ![u][addr] = made.rec]
          /\ identities' = saveIdentity(identities, u, addr, peerBundle(id).identityKey)
          /\ bases' = [bases EXCEPT ![u] = bases[u] + 1]
          /\ lastOp' = [op |-> "establishWith", user |-> u, peer |-> id, addr |-> addr]
    /\ UNCHANGED <<keyVars, profiles, messages, screenVars, decrypted, extVars>>

NextPeers == \E u \in Typists, id \in PeerIds : EstablishWith(u, id)

SpecPeers == Init /\ [][NextPeers]_vars

\* ------------------------------------ CryptoService.initialize, step by step
\* initialize: await this.signal.getUserBundle()
InitGetUserBundle(u, c) ==
    /\ initCalls[u][c].pc = "idle"
    /\ \E rid \in RegIds :
        LET existing == getUserBundle(u, rid) IN
        initCalls' = [initCalls EXCEPT ![u][c] =
                        IF existing # Null
                        THEN [pc |-> "save", userBundle |-> existing]
                        ELSE [pc |-> "generate"]]
    /\ lastOp' = [op |-> "step"]
    /\ UNCHANGED <<keyVars, nonKeyVars, expiryVars, auth>>

\* initialize: await this.signal.generateIdentity()
InitGenerateIdentity(u, c) ==
    /\ initCalls[u][c].pc = "generate"
    /\ gen[u] < MaxGen
    /\ \E rid \in RegIds, d \in AllDraws :
        /\ generateIdentity(u, gen[u] + 1, rid, d[1], d[2])
        /\ initCalls' = [initCalls EXCEPT ![u][c] =
                [pc |-> "save",
                 userBundle |-> generatedBundle(u, gen[u] + 1, rid, d[1], d[2])]]
    /\ lastOp' = [op |-> "step"]
    /\ UNCHANGED <<nonKeyVars, expiryVars, auth>>

\* initialize: await this.savePublicBundle(), and the return
InitSavePublicBundle(u, c) ==
    /\ initCalls[u][c].pc = "save"
    /\ \E updateOk \in BOOLEAN :
        savePublicBundle(u, initCalls[u][c].userBundle, updateOk)
    /\ initCalls' = [initCalls EXCEPT ![u][c] = IdleCall]
    /\ lastOp' = [op |-> "initializeReturned", user |-> u, caller |-> c]
    /\ UNCHANGED <<keyVars, sessions, identities, messages, bases, screenVars,
                   decrypted, expiryVars, auth>>

NextInit ==
    \/ \E u \in Typists, c \in Callers : InitGetUserBundle(u, c)
    \/ \E u \in Typists, c \in Callers : InitGenerateIdentity(u, c)
    \/ \E u \in Typists, c \in Callers : InitSavePublicBundle(u, c)

SpecInit == Init /\ [][NextInit]_vars

\* ------------------------------------- CryptoService.decryptMessage, any input
EmptyMessage ==
    PlainString(<<"[", "E", "m", "p", "t", "y", " ", "m", "e", "s", "s", "a",
                  "g", "e", "]">>)
NonString == [type |-> "nonstring"]

\* !encryptedMessage || typeof encryptedMessage !== 'string'
IsEmptyInput(input) ==
    input.type = "nonstring" \/ (input.type = "text" /\ input.body = <<>>)

\* CryptoService.decryptMessage(encryptedMessage, senderId), the session
\* record read as snap
decryptMessageOf(u, snap, input) ==
    IF IsEmptyInput(input) THEN [failed |-> FALSE, value |-> EmptyMessage]
    ELSE IF ~looksEncrypted(input) THEN [failed |-> FALSE, value |-> input]
    ELSE cryptoDecryptMessage(u, snap, input)

\* strings that are not envelopes: empty, short, with a character outside
\* base64, of a length not divisible by 4, and base64-shaped
TextInputs ==
    {NonString,
     PlainString(<<>>),
     PlainString(ShortText),
     PlainString(<<"h", "i", " ", "h", "i", " ", "h", "i", " ", "h", "i", " ">>),
     PlainString(<<"a", "b", "c", "d", "a", "b", "c", "d", "a", "b">>),
     PlainString(<<"a", "b", "c", "d", "a", "b", "c", "d", "a", "b", "c", "d">>)}

WireCiphertexts == {messages[i].ciphertext : i \in 1..Len(messages)}

DecryptMessage(u, input) ==
    /\ cryptoServiceRef[u]
    /\ LET snap == sessions[u][AddressOf(Peer(u))]
           starts == ~IsEmptyInput(input) /\ StartsDecrypt(input)
       IN /\ IF starts THEN DecryptStore(u, snap, input)
             ELSE UNCHANGED <<sessions, identities, decrypted>>
          /\ lastOp' = [op |-> "decryptMessage", user |-> u, input |-> input,
                        ok |-> starts /\ decryptMessage(u, snap, input).ok,
                        result |-> decryptMessageOf(u, snap, input)]
    /\ UNCHANGED <<keyVars, profiles, messages, bases, cryptoServiceRef, WireVars,
                   extVars>>

NextDecrypt ==
    \/ \E u \in Users : EnterChat(u)
    \/ \E u \in Typists : WireEncrypt(u)
    \/ \E u \in Users \ Typists, input \in TextInputs \cup WireCiphertexts :
            DecryptMessage(u, input)

SpecDecrypt == Init /\ [][NextDecrypt]_vars

\* ------------------------------------------------------------ AuthProvider
notAuthVars == <<keyVars, nonKeyVars, expiryVars, initCalls>>

\* signIn: signInWithPassword succeeds and the client announces SIGNED_IN
SignIn(u) ==
    /\ auth.user = NoSession /\ auth.signOut = "idle"
    /\ Len(auth.events) < MaxAuthEvents
    /\ auth' = [auth EXCEPT !.backend = u, !.events = Append(@, u)]
    /\ lastOp' = [op |-> "signIn", user |-> u]
    /\ UNCHANGED notAuthVars

\* the onAuthStateChange callback up to its await of loadProfile
OnAuthStateChange ==
    /\ auth.events # <<>>
    /\ LET s == Head(auth.events) IN
       auth' = [auth EXCEPT !.events = Tail(@),
                            !.session = s,
                            !.user = s,
                            !.loads = IF s # NoSession THEN @ \cup {s} ELSE @,
                            !.profile = IF s # NoSession THEN @ ELSE NoSession,
                            !.signedOut = IF s # NoSession THEN FALSE ELSE @]
    /\ lastOp' = [op |-> "onAuthStateChange", session |-> Head(auth.events)]
    /\ UNCHANGED notAuthVars

\* loadProfile from the answer of its select
LoadProfileReturns(userId, selectOk) ==
    /\ userId \in auth.loads
    /\ auth' = [auth EXCEPT !.loads = @ \ {userId},
                            !.profile = IF selectOk THEN userId ELSE @]
    /\ lastOp' = [op |-> "loadProfile", user |-> userId, ok |-> selectOk]
    /\ UNCHANGED notAuthVars

\* signOut up to its await of supabase.auth.signOut
SignOutBegin ==
    /\ auth.user # NoSession /\ auth.signOut = "idle"
    /\ auth' = [auth EXCEPT !.user = NoSession, !.profile = NoSession,
                            !.session = NoSession, !.signOut = "awaiting"]
    /\ lastOp' = [op |-> "step"]
    /\ UNCHANGED notAuthVars

\* signOut: the backend call answers and signOut returns; a successful call
\* drops the client's session and announces SIGNED_OUT
SignOutReturns(backendOk) ==
    /\ auth.signOut = "awaiting"
    /\ Len(auth.events) < MaxAuthEvents
    /\ auth' = [auth EXCEPT !.signOut = "idle",
                            !.signedOut = TRUE,
                            !.backend = IF backendOk THEN NoSession ELSE @,
                            !.events = IF backendOk THEN Append(@, NoSession) ELSE @]
    /\ lastOp' = [op |-> "signOut", ok |-> backendOk]
    /\ UNCHANGED notAuthVars

NextAuth ==
    \/ \E u \in Users : SignIn(u)
    \/ OnAuthStateChange
    \/ \E u \in Users, selectOk \in BOOLEAN : LoadProfileReturns(u, selectOk)
    \/ SignOutBegin
    \/ \E backendOk \in BOOLEAN : SignOutReturns(backendOk)

SpecAuth == Init /\ [][NextAuth]_vars

\* ------------------------------------------------------------------ claims
IsDecryptObservation ==
    lastOp.op \in {"loadDecryptStore", "handleDecryptStore"}

\* C1: when the encryption of the typed text fails, sendMessage inserts no
\* row whose ciphertext is the plaintext.
C1_NoPlaintextAfterFailedEncryption ==
    (lastOp.op = "sendInsert" /\ lastOp.ok /\ lastOp.encrypt = "failed")
        => lastOp.ciphertext # lastOp.plaintext

\* C2: the receiver's first decryption of an envelope the peer encrypted
\* after establishing on the receiver's published bundle returns the
\* plaintext.
C2_RoundTrip ==
    (/\ IsDecryptObservation
     /\ lastOp.ciphertext.by = Peer(lastOp.user)
     /\ ~lastOp.replay)
        => (~lastOp.result.failed
            /\ lastOp.result.value = PlainString(lastOp.ciphertext.body))

\* C3: a decryption of an envelope that an earlier decryption of the same
\* user has already decrypted fails with an error and returns no value.
C3_ReplayFails ==
    (IsDecryptObservation /\ lastOp.replay) => lastOp.result.failed

C5_IdentityReplacedOnlyBySettings ==
    [][\A u \in Users :
        (identityKeyPair[u] # Null /\ identityKeyPair'[u] # identityKeyPair[u])
        => (lastOp'.op = "initializeEncryption" /\ lastOp'.user = u)]_vars

\* C6: once a receiver has bootstrapped a session from a PreKeyMessage, the
\* one-time pre-key record it names is no longer in the key store.
C6_PreKeyConsumed ==
    (IsDecryptObservation /\ lastOp.ok /\ lastOp.bootstrap)
        => preKeys[lastOp.user][lastOp.ciphertext.opk.keyId] = Null

\* C7: for every address at most one encrypt or decrypt is between its read
\* of the session and its write-back.
InFlight(u) ==
    (IF send[u].pc = "encrypting" THEN {<<"send", 0>>} ELSE {})
    \cup (IF load[u].pc = "decrypting" THEN {<<"load", 0>>} ELSE {})
    \cup {<<"handle", h.id>> : h \in handling[u]}

C7_OneInFlightPerAddress ==
    \A u \in Users : Cardinality(InFlight(u)) <= 1

\* C8: the identity key stored for a peer is never overwritten by a
\* different key, and no session is stored with the different key.
C8_IdentityChangeNotTrusted ==
    [][\A u \in Users : \A a \in Addresses :
        identities[u][a] # Null
        => (identities'[u][a] = identities[u][a]
            /\ (sessions'[u][a] # sessions[u][a]
                    => \A st \in sessions'[u][a].states :
                          st.their = identities[u][a]))]_vars

\* C9: when the decryption of an envelope fails a cryptographic check,
\* CryptoService.decryptMessage reports a failure to its caller.
C9_FailureReported ==
    (IsDecryptObservation /\ ~lastOp.ok) => lastOp.result.failed

\* C10: sending to a peer for whom a session is stored does not replace the
\* stored current session.
C10_SessionReused ==
    [][\A u \in Users :
        (/\ send[u].pc = "idle" /\ send'[u].pc # "idle"
         /\ sessions[u][AddressOf(Peer(u))] # Null)
        => sessions'[u][AddressOf(Peer(u))].cur = sessions[u][AddressOf(Peer(u))].cur]_vars

\* C11: right after generateIdentity has returned a bundle, getUserBundle
\* returns that bundle; it returns absent only when no identity is stored.
C11_LoadReturnsGenerated ==
    /\ (lastOp.op = "generateIdentity" /\ lastOp.ok)
          => \A rid \in RegIds : getUserBundle(lastOp.user, rid) = lastOp.bundle
    /\ \A u \in Users : \A rid \in RegIds :
          getUserBundle(u, rid) = Null => identityKeyPair[u] = Null

\* C12: the safety number a user computes about the peer equals the one the
\* peer computes about the user.
C12_SafetyNumberSymmetric ==
    (/\ lastOp.op = "getSafetyNumber"
     /\ lastOp.result # SafetyNumberError
     /\ cryptoGetSafetyNumber(Peer(lastOp.user), lastOp.user) # SafetyNumberError)
    => lastOp.result = cryptoGetSafetyNumber(Peer(lastOp.user), lastOp.user)

\* C13: when the recipient's published bundle has no one-time pre-key (and a
\* validly signed pre-key), establish succeeds and the session it creates
\* holds no one-time pre-key, real or substituted.
C13_NoPreKeyInDegradedSession ==
    \A u \in Typists :
      LET prof == profiles[Peer(u)]
          rec == sessions[u][AddressOf(Peer(u))] IN
      (/\ lastOp.op = "sendBegin" /\ lastOp.user = u
       /\ cryptoServiceRef[u]
       /\ prof.identity_key_public # Null
       /\ prof.one_time_prekeys = <<>>
       /\ VerifySignature(prof.identity_key_public, prof.signed_prekey.publicKey,
                          prof.signed_prekey.signature))
      => /\ lastOp.encrypt = "created"
         /\ rec # Null
         /\ StateFor(rec, rec.cur).opk = Null

\* C14: a send to a recipient whose profile has no identity public key ends
\* with the prompt to ask the recipient to initialize shown to the sender.
C14_PeerNotInitializedSurfaced ==
    (/\ lastOp.op = "sendInsert"
     /\ lastOp.err = "Recipient public key not found")
    => error[lastOp.user] = SetupBanner

\* C15: when the three messages encrypted in the order 1, 2, 3 have been
\* decrypted by their recipient in the order 3, 1, 2, every decryption
\* succeeded and returned the plaintext of its own message.
C15_ReorderedRoundTrip ==
    (/\ Len(WireLog) >= 3
     /\ [i \in 1..3 |-> WireLog[i].id] = <<3, 1, 2>>)
    => \A i \in 1..3 :
          /\ WireLog[i].ok
          /\ WireLog[i].result = PlainString(WireTexts[WireLog[i].id])

\* C16: the decryption of a PreKeyMessage that the same user has already
\* decrypted, its one-time pre-key thereby used, reports StaleOneTimePreKey.
C16_StalePreKeyReported ==
    (/\ IsDecryptObservation
     /\ lastOp.ciphertext.type = "prekey"
     /\ lastOp.replay)
    => (~lastOp.ok /\ lastOp.err = "StaleOneTimePreKey")

\* C17: every envelope is handed to exactly one decrypt path, the one named
\* by the message_type stored with it.
C17_PathFromDiscriminator ==
    (IsDecryptObservation /\ lastOp.ciphertext.type \in {"prekey", "normal"})
    => \A id \in 1..Len(messages) :
          messages[id].ciphertext = lastOp.ciphertext
          => lastOp.paths = <<PathNamedBy(messages[id].message_type)>>

\* C18: a step that replaces a stored identity key pair leaves no session in
\* that user's key store, and a step that does not replace it removes no
\* stored session.
C18_SessionsDroppedOnReinitialize ==
    [][\A u \in Users :
        IF identityKeyPair[u] # Null /\ identityKeyPair'[u] # identityKeyPair[u]
        THEN \A a \in Addresses : sessions'[u][a] = Null
        ELSE \A a \in Addresses : sessions[u][a] # Null => sessions'[u][a] # Null]_vars

\* C19: a generateIdentity that fails on one of its key-store writes leaves
\* every entry of the key store as it was.
C19_FailedGenerateWritesNothing ==
    [][(lastOp'.op = "generateIdentity" /\ ~lastOp'.ok)
        => UNCHANGED storeVars]_vars

\* C20: a key-store read of an entry that was never written reports absent,
\* in every category.
C20_UnwrittenReadsAbsent ==
    (lastOp.op = "read" /\ ~lastOp.written) => lastOp.result = Absent

\* C21: in every bundle generateIdentity or getUserBundle returns, and in
\* every published profile, the signed pre-key's signature is that of the
\* bundle's own identity key over the signed pre-key's public key.
BundleSignatureValid(identityKey, signedPreKey) ==
    VerifySignature(identityKey, signedPreKey.publicKey, signedPreKey.signature)

C21_BundleSelfSigned ==
    /\ (lastOp.op = "generateIdentity" /\ lastOp.ok)
          => BundleSignatureValid(lastOp.bundle.identityKey, lastOp.bundle.signedPreKey)
    /\ (lastOp.op = "getUserBundle" /\ lastOp.result # Null)
          => BundleSignatureValid(lastOp.result.identityKey, lastOp.result.signedPreKey)
    /\ \A u \in Users :
          profiles[u].identity_key_public # Null
          => BundleSignatureValid(profiles[u].identity_key_public,
                                  profiles[u].signed_prekey)

\* C22: getUserBundle changes no entry of the key store, whether it returns
\* a bundle or absent.
C22_GetUserBundleWritesNothing ==
    [][lastOp'.op = "getUserBundle" => UNCHANGED storeVars]_vars

\* getUserBundle has returned absent for a user whose identity is stored but
\* whose registration id was never written.
C22_Witness ==
    /\ lastOp.op = "getUserBundle"
    /\ lastOp.result = Null
    /\ identityKeyPair[lastOp.user] # Null
    /\ registrationId[lastOp.user] = 0

\* C23: every row stored with an expire_duration, text or attachment, is
\* eventually no longer in the messages table.
C23_ExpiringRowsDeleted ==
    \A id \in 1..MaxRows :
        (\E i \in 1..Len(messages) :
            messages[i].id = id /\ messages[i].expire_duration # ExpireNull)
        ~> (\A i \in 1..Len(messages) : messages[i].id # id)

\* C24: establishing a session with one peer changes neither the session nor
\* the trusted identity stored for another peer.
C24_PeersDoNotShareAddress ==
    [][\A u \in Typists : \A p \in PeerIds, q \in PeerIds :
        LET a == addressOfUserId(q) IN
        (/\ lastOp'.op = "establishWith" /\ lastOp'.user = u /\ lastOp'.peer = p
         /\ p # q
         /\ identities[u][a] = peerBundle(q).identityKey)
        => /\ sessions'[u][a] = sessions[u][a]
           /\ identities'[u][a] = identities[u][a]]_vars

\* C25: when an initialize call has returned, the published identity key is
\* the stored one and the published pre-key ids name stored records with the
\* published public keys.
C25_PublishedMatchesStore ==
    \A u \in Users :
        (lastOp.op = "initializeReturned" /\ lastOp.user = u)
        => /\ profiles[u].identity_key_public = identityKeyPair[u]
           /\ signedPreKeys[u][profiles[u].signed_prekey.keyId] # Null
           /\ signedPreKeys[u][profiles[u].signed_prekey.keyId].publicKey
                = profiles[u].signed_prekey.publicKey
           /\ \A i \in 1..Len(profiles[u].one_time_prekeys) :
                preKeys[u][profiles[u].one_time_prekeys[i].keyId]
                    = profiles[u].one_time_prekeys[i].publicKey

\* C26: CryptoService.decryptMessage never throws; it returns
\* '[Empty message]' for an empty or non-string input, the input for a string
\* that does not look encrypted or whose decryption fails, and otherwise the
\* decrypted plaintext.
C26_DecryptNeverThrows ==
    lastOp.op = "decryptMessage"
    => /\ ~lastOp.result.failed
       /\ IF IsEmptyInput(lastOp.input) THEN lastOp.result.value = EmptyMessage
          ELSE IF ~looksEncrypted(lastOp.input) \/ ~lastOp.ok
          THEN lastOp.result.value = lastOp.input
          ELSE lastOp.result.value = PlainString(lastOp.input.body)

\* decryptMessage was given an envelope whose decryption failed
C26_Witness ==
    /\ lastOp.op = "decryptMessage"
    /\ lastOp.input \in WireCiphertexts
    /\ ~lastOp.ok

\* C27: once loadMessages, every pending handleNewMessage and sendMessage of
\* an open chat thread have completed, every row of the conversation is in the
\* displayed list exactly once.
C27_EachMessageShownOnce ==
    \A u \in Users :
        (/\ mounted[u] /\ load[u].pc = "idle" /\ send[u].pc = "idle"
         /\ handling[u] = {} /\ events[u] = {})
        => \A k \in 1..Len(Conversation(u)) :
               Cardinality({i \in 1..Len(displayed[u]) :
                   displayed[u][i].id = Conversation(u)[k].id}) = 1
\* C28: while a sendMessage of a chat screen is between setSending(true) and
\* its finally block no further sendMessage of that screen begins, and the
\* step that ends a send, on success, after an encryption failure or after an
\* insert failure, leaves sending false.
C28_OneSendInFlight ==
    [][\A u \in Users :
          /\ (send[u].pc # "idle")
             => /\ sending[u]
                /\ ~(lastOp'.op = "sendBegin" /\ lastOp'.user = u)
          /\ (send[u].pc # "idle" /\ send'[u].pc = "idle") => ~sending'[u]]_vars

\* a send is in flight after its encryption failed, with sending set
C28_Witness ==
    \E u \in Typists :
        /\ send[u].pc = "insert" /\ send[u].encrypt = "failed"
        /\ sending[u]
\* C29: after signOut has returned, and until the next sign-in event is
\* delivered, user, profile and session are null, whether the backend
\* sign-out succeeded or not and however a loadProfile started before the
\* signOut interleaves with it.
C29_SignedOutStaysNull ==
    auth.signedOut
    => /\ auth.user = NoSession
       /\ auth.profile = NoSession
       /\ auth.session = NoSession
\* C30: every expire_duration sendMessage or uploadAndSendAttachment writes
\* satisfies valid_expire_duration and is written only for a duration greater
\* than 0, and every duration a chat screen holds is 0 or within 5..604800.
C30_ExpireDurationValid ==
    /\ \A u \in Users :
          \/ defaultExpireDuration[u] = 0
          \/ (/\ defaultExpireDuration[u] >= MinExpireDuration
              /\ defaultExpireDuration[u] <= MaxExpireDuration)
    /\ lastOp.op \in {"sendInsert", "uploadAndSendAttachment"}
       => /\ valid_expire_duration(lastOp.expire_duration)
          /\ lastOp.expire_duration # ExpireNull
             <=> defaultExpireDuration[lastOp.user] > 0

\* a text message was inserted with the duration loaded or selected before
C30_Witness ==
    /\ lastOp.op = "sendInsert" /\ lastOp.ok
    /\ lastOp.expire_duration >= MinExpireDuration
====
